---- MODULE Spec2Model ----
(***************************************************************************)
(* CodeHermit: the review orchestration of src/src/cli.ts (main and, from  *)
(* line 382 on, the review module: loadPrompt, getAgentSpawnOptions,       *)
(* runReview), src/src/get-diff.ts and src/src/plugins/azure.ts.           *)
(*                                                                         *)
(* A JavaScript string is a sequence of lexemes.  A lexeme is a run of     *)
(* characters that the code never looks inside other than by the tests    *)
(* named below (a flag, a branch word, a separator, a number).  The empty  *)
(* string is <<>>.  An optional value (T | undefined) is a record          *)
(* [def, val].                                                             *)
(***************************************************************************)
EXTENDS Integers, Sequences, FiniteSets, TLC

VARIABLES
  argv,            \* process.argv.slice(2)
  env,             \* names of the environment variables that are set
  agentEnv,        \* the values of AGENT_PATH and CURSOR_AGENT_PATH
  args,            \* main: let args
  pc,              \* position of main / runReview
  repoPath, baseBranch, headBranch, prId, repoName,      \* main: lets
  diffFileName, outputFileName, cwd, diffWritePath, reviewOutputPath,
  files,           \* the file system: path -> content (sequence of chunks)
  stdout,          \* chunks written with process.stdout.write
  stderr,          \* what was written to the error stream, in order
  hostExit,        \* process.exit of the host: [exited, code]
  firstChunk, spinner, spinnerIndex,                     \* runReview: lets
  fileStream,      \* the write stream: [opened, ended, chunks, endCalls]
  child,           \* the spawned agent: [state, pipe, emitted, code, err]
  received,        \* chunks handed to the 'data' handler so far
  stages,          \* history: the stages main has entered, in order
  failure,         \* history: the failure that ended the run, or "none"
  httpStatus,      \* history: the provider's HTTP status, or 0
  provider,        \* the request made to the provider and the JSON it answered
  gitDiff          \* what the diff command answered, and what getDiff returned

mainVars == <<argv, env, agentEnv, args, repoPath, baseBranch, headBranch, prId, repoName,
              diffFileName, outputFileName, cwd, diffWritePath, reviewOutputPath>>
reviewVars == <<stdout, firstChunk, spinner, spinnerIndex, fileStream, child, received>>
vars == <<mainVars, reviewVars, pc, files, stderr, hostExit, stages, failure, httpStatus, provider, gitDiff>>

-----------------------------------------------------------------------------
(* Bounds of the model *)

\* chunks the agent writes to its stdout in one run
MaxChunks == 2
\* spinner frames the interval timer renders in one run
MaxTicks == 2

-----------------------------------------------------------------------------
(* Strings and optional values *)

Undefined == [def |-> FALSE, val |-> <<>>]
Def(s) == [def |-> TRUE, val |-> s]
\* JavaScript truthiness of a string | undefined
Truthy(o) == o.def /\ o.val # <<>>

\* lexemes that begin with '-'
DashLexemes == {"--help", "--version", "--status", "--pr", "-p", "--output-dir", "-o",
                "--base", "-b", "--head", "-h", "--repo", "-r", "--verbose"}
\* lexemes made of decimal digits only
DigitLexemes == {"0", "1", "2", "3", "4", "5", "6", "7", "8", "9"}
\* lexemes that are white space
SpaceLexemes == {" "}

\* arg.startsWith('-')
StartsWithDash(s) == Len(s) > 0 /\ s[1] \in DashLexemes
\* /^\d+$/.test(arg)
IsDigits(s) == Len(s) > 0 /\ \A i \in 1..Len(s) : s[i] \in DigitLexemes
\* s.includes(lexeme)
Includes(s, lx) == \E i \in 1..Len(s) : s[i] = lx

RECURSIVE TrimStart(_)
TrimStart(s) == IF Len(s) > 0 /\ s[1] \in SpaceLexemes THEN TrimStart(Tail(s)) ELSE s
RECURSIVE TrimEnd(_)
TrimEnd(s) ==
  IF Len(s) > 0 /\ s[Len(s)] \in SpaceLexemes THEN TrimEnd(SubSeq(s, 1, Len(s) - 1)) ELSE s
\* String.prototype.trim
Trim(s) == TrimEnd(TrimStart(s))

\* argv[i] with i counted from 0; undefined past the end
ArgAt(av, i) == IF i + 1 <= Len(av) THEN Def(av[i + 1]) ELSE Undefined

-----------------------------------------------------------------------------
(* parseArgs, cli.ts 124-186 *)

NoArgs == [prIdOrUrl |-> Undefined, base |-> Undefined, head |-> Undefined,
           repo |-> Undefined, outputDir |-> Undefined]

RECURSIVE parseArgsFrom(_, _, _)
parseArgsFrom(av, i, result) ==
  IF i >= Len(av) THEN result
  ELSE LET arg == av[i + 1] IN
    IF arg \in {<<"--pr">>, <<"-p">>}
      THEN parseArgsFrom(av, i + 2, [result EXCEPT !.prIdOrUrl = ArgAt(av, i + 1)])
    ELSE IF arg \in {<<"--output-dir">>, <<"-o">>}
      THEN parseArgsFrom(av, i + 2, [result EXCEPT !.outputDir = ArgAt(av, i + 1)])
    ELSE IF arg \in {<<"--base">>, <<"-b">>}
      THEN parseArgsFrom(av, i + 2, [result EXCEPT !.base = ArgAt(av, i + 1)])
    ELSE IF arg \in {<<"--head">>, <<"-h">>}
      THEN parseArgsFrom(av, i + 2, [result EXCEPT !.head = ArgAt(av, i + 1)])
    ELSE IF arg \in {<<"--repo">>, <<"-r">>}
      THEN parseArgsFrom(av, i + 2, [result EXCEPT !.repo = ArgAt(av, i + 1)])
    ELSE IF StartsWithDash(arg)
      THEN parseArgsFrom(av, i + 1, result)
    ELSE IF ~Truthy(result.prIdOrUrl) /\ ~Truthy(result.base)
      THEN IF IsDigits(arg)
             THEN parseArgsFrom(av, i + 1, [result EXCEPT !.prIdOrUrl = Def(arg)])
           ELSE IF Includes(arg, "dev.azure.com") /\ Includes(arg, "pullrequest")
             THEN parseArgsFrom(av, i + 1, [result EXCEPT !.prIdOrUrl = Def(arg)])
           ELSE parseArgsFrom(av, i + 3,
                  [result EXCEPT !.base = Def(arg), !.head = ArgAt(av, i + 1)])
    ELSE parseArgsFrom(av, i + 1, result)

parseArgs(av) == parseArgsFrom(av, 0, NoArgs)

-----------------------------------------------------------------------------
(* plugins/azure.ts *)

StartsWith(s, p) == Len(s) >= Len(p) /\ SubSeq(s, 1, Len(p)) = p
Drop(s, n) == SubSeq(s, n + 1, Len(s))

REFS_HEADS == <<"refs", "/", "heads", "/">>

\* mutant of stripRefsHeads: the ref is passed through as the provider gave it
stripRefsHeadsKept(ref) == ref

\* stripRefsHeads, azure.ts 15-18
stripRefsHeads(ref) == IF StartsWith(ref, REFS_HEADS) THEN Drop(ref, Len(REFS_HEADS)) ELSE ref

\* new URL(s): the scheme, then any run of '/', then the host up to the next '/';
\* what follows the host is the pathname.  Without scheme or host it throws.
SchemeLexemes == {"https://"}
RECURSIVE SkipSlashes(_)
SkipSlashes(s) == IF Len(s) > 0 /\ s[1] = "/" THEN SkipSlashes(Tail(s)) ELSE s
UrlAfterScheme(s) == SkipSlashes(Tail(s))
UrlParses(s) ==
  /\ Len(s) > 0 /\ s[1] \in SchemeLexemes
  /\ Len(UrlAfterScheme(s)) > 0
  /\ UrlAfterScheme(s)[1] \notin SpaceLexemes \cup SchemeLexemes
\* u.pathname
UrlPathname(s) == Tail(UrlAfterScheme(s))

\* s.split('/').filter(Boolean): the non-empty runs between separators
RECURSIVE SplitFrom(_, _, _)
SplitFrom(s, cur, acc) ==
  IF s = <<>> THEN (IF cur = <<>> THEN acc ELSE Append(acc, cur))
  ELSE IF s[1] = "/" THEN SplitFrom(Tail(s), <<>>, IF cur = <<>> THEN acc ELSE Append(acc, cur))
  ELSE SplitFrom(Tail(s), Append(cur, s[1]), acc)
SplitPath(s) == SplitFrom(s, <<>>, <<>>)

\* Array.prototype.indexOf, counted from 0; -1 when absent
IndexOf(parts, x) ==
  IF \E i \in 1..Len(parts) : parts[i] = x
    THEN (CHOOSE i \in 1..Len(parts) : parts[i] = x /\ \A j \in 1..(i - 1) : parts[j] # x) - 1
    ELSE -1

NoPr == [ok |-> FALSE, org |-> <<>>, project |-> <<>>, repository |-> <<>>, prId |-> <<>>]

\* parsePrUrl, azure.ts 24-43; ok = FALSE stands for null
parsePrUrl(url) ==
  LET trimmed == Trim(url) IN
  IF ~Includes(trimmed, "dev.azure.com") \/ ~Includes(trimmed, "pullrequest") THEN NoPr
  ELSE IF ~UrlParses(trimmed) THEN NoPr
  ELSE
    LET pathParts == SplitPath(UrlPathname(trimmed))
        pullRequestIdx == IndexOf(pathParts, <<"pullrequest">>)
        gitIdx == IndexOf(pathParts, <<"_git">>)
    IN IF pullRequestIdx = -1 \/ pullRequestIdx >= Len(pathParts) - 1 THEN NoPr
       ELSE IF gitIdx = -1 \/ gitIdx >= Len(pathParts) - 1 THEN NoPr
       ELSE IF Len(pathParts) < 2 THEN NoPr
       ELSE [ok |-> TRUE, org |-> pathParts[1], project |-> pathParts[2],
             repository |-> pathParts[gitIdx + 2], prId |-> pathParts[pullRequestIdx + 2]]

\* getAzureConfig, azure.ts 51-58: which of orgUrl, project, pat are set
getAzureConfig(e) ==
  [orgUrl  |-> "AZURE_ORG_URL" \in e \/ "AZURE_DEVOPS_ORG" \in e,
   project |-> "AZURE_PROJECT" \in e \/ "AZURE_DEVOPS_PROJECT" \in e,
   pat     |-> "AZURE_PAT" \in e \/ "AZURE_DEVOPS_PAT" \in e]

\* isAzureConfigured, azure.ts 45-48
isAzureConfigured(e) ==
  LET c == getAzureConfig(e) IN c.orgUrl /\ c.project /\ c.pat

\* mutant of HasRequestConfig: the token is not required
HasRequestConfigNoPat(e, overridden) ==
  LET c == getAzureConfig(e) IN
  (overridden \/ c.orgUrl) /\ (overridden \/ c.project)

\* getPrDetails, azure.ts 70-77: the configuration the request needs is there
\* (an override given by the caller replaces the configured org and project)
HasRequestConfig(e, overridden) ==
  LET c == getAzureConfig(e) IN
  (overridden \/ c.orgUrl) /\ (overridden \/ c.project) /\ c.pat

\* azure.ts 96-101: the fields read from the provider's JSON; NoData before an answer
NoData == [pullRequestId |-> 0, repository |-> <<>>, sourceRefName |-> <<>>,
           targetRefName |-> <<>>]
\* no call of getPrDetails has reached fetch (azure.ts 82)
NoRequest ==
  [requested |-> FALSE, prId |-> <<>>, orgUrlOverride |-> Undefined,
   projectOverride |-> Undefined, answered |-> FALSE, data |-> NoData]

\* getPrDetails, azure.ts 96-107: the details built from the provider's JSON
PrDetailsOf(data) ==
  [repository |-> data.repository,
   sourceBranch |-> stripRefsHeads(data.sourceRefName),
   targetBranch |-> stripRefsHeads(data.targetRefName),
   pullRequestId |-> data.pullRequestId]

-----------------------------------------------------------------------------
(* Paths (node:path), the configuration and the inputs of a run *)

Join(a, b) == a \o <<"/">> \o b
IsAbsolute(p) == Len(p) > 0 /\ p[1] = "/"
\* path.basename: the last non-empty segment
Basename(p) == LET parts == SplitPath(p) IN IF parts = <<>> THEN <<>> ELSE parts[Len(parts)]
StripDotSlash(p) == IF StartsWith(p, <<".", "/">>) THEN Drop(p, 2) ELSE p
\* path.resolve(base, p)
PathResolve(base, p) == IF IsAbsolute(p) THEN p ELSE Join(base, StripDotSlash(p))

\* process.cwd()
ProcessCwd == <<"/", "work">>
\* what git rev-parse --show-toplevel answers inside a clone
CwdRepoRoot == <<"/", "work", "/", "Here">>

\* getReposRoot, config.ts 28-33
getReposRoot(e) ==
  IF "REPOS_ROOT" \in e THEN <<"/", "srv", "/", "repos">>
  ELSE <<"/", "home", "/", "code", "/", "repos">>

\* loadReposList, config.ts 14-26: the names in repos.json
ReposList == << <<"Repo">>, <<"Other">> >>

S_main == <<"main">>
S_head == <<"feature", "/", "x">>
S_id == <<"4", "2">>
S_url == <<"https://", "dev.azure.com", "/", "Org", "/", "Proj", "/", "_git", "/", "Repo",
           "/", "pullrequest", "/", "4", "2">>

\* the command lines of the model
ArgvCases ==
  { <<>>,
    << S_main, S_head >>,
    << S_id >>,
    << S_url >>,
    << <<"--pr">>, S_id >>,
    << S_main, S_head, <<"--output-dir">>, <<".", "/", "Reviews">> >>,
    << <<"--output-dir">>, <<".", "/", "Reviews">>, S_main, S_head >>,
    << <<"--base">>, S_main, <<"--head">>, S_head >>,
    << <<"--base">>, S_main >>,
    << S_main >>,
    << S_main, S_head, <<"--repo">>, <<"Repo">> >>,
    << <<"--repo">>, <<"/", "abs", "/", "Repo">>, <<"-o">>, <<"out">>, S_main, S_head >>,
    << <<"--help">> >>,
    << <<"--version">> >>,
    << <<"--status">> >> }

\* the environments of the model
EnvCases == { {}, {"AZURE_PAT"}, {"AZURE_ORG_URL", "AZURE_PROJECT", "AZURE_PAT"} }

\* what the user may type at a prompt (before question() trims it)
BaseAnswers == { <<>>, <<"dev">> }
HeadAnswers == { <<>>, <<" ">>, S_head }
PrAnswers == { <<>>, S_id, S_url }
RepoAnswers == { <<>>, <<"2">>, <<"Mine">> }

\* the provider's JSON bodies
ProviderData ==
  { [pullRequestId |-> 42, repository |-> <<"Repo">>,
     sourceRefName |-> REFS_HEADS \o <<"feature", "/", "y">>,
     targetRefName |-> REFS_HEADS \o <<"main">>] }

\* the contents the diff command may produce
DiffTexts == { <<>>, <<"d1">> }

-----------------------------------------------------------------------------
(* Messages on the error stream *)

MsgAzureRequired == "Azure mode requires AZURE_ORG_URL, AZURE_PROJECT, AZURE_PAT in .env"
MsgMissingConfig == "Missing Azure DevOps config. Set AZURE_ORG_URL ..."
MsgUnauthorized ==
  "Azure DevOps returned Unauthorized. Check that AZURE_PAT ... Create or renew a PAT at: https://dev.azure.com/_usersSettings/tokens"
MsgFetchFailed == "Failed to fetch pull request"
MsgRepoNotFound == "Repo not found"
MsgHeadRequired == "Head branch is required."
MsgRepoRequired == "Repository name is required when using --output-dir."
MsgNoDetect == "Could not detect repo. Pass --repo or run from a git repo."
MsgFetchWarning == "Warning: could not fetch origin"
MsgDiffFailed == "Failed to get diff"
MsgPromptNotFound == "Prompt file not found"
MsgRunning == "Running Cursor agent to review the diff (this may take a minute or two)..."
MsgClear == "\\r   \\r"
MsgAgentNotFound == "Agent CLI not found. ... set AGENT_PATH to its full path ... Or install Cursor CLI"
MsgRawError == "spawn error"
MsgSaved == "Review saved to"

NotExited == [exited |-> FALSE, code |-> 0]
\* process.exit(code)
Exited(code) == [exited |-> TRUE, code |-> code]

-----------------------------------------------------------------------------
(* The state after construction *)

\* getDiff has not been called
NoDiff == [calls |-> 0, ok |-> TRUE, out |-> <<>>, returned |-> [def |-> FALSE, val |-> 0]]
\* neither AGENT_PATH nor CURSOR_AGENT_PATH is set
NoAgentEnv == [AGENT_PATH |-> Undefined, CURSOR_AGENT_PATH |-> Undefined]

NoChild == [state |-> "none", pipe |-> <<>>, emitted |-> <<>>,
            code |-> [null |-> TRUE, val |-> 0], err |-> "none", ended |-> FALSE,
            command |-> <<>>, args |-> <<>>, cwd |-> <<>>]
NoStream == [opened |-> FALSE, ended |-> FALSE, chunks |-> <<>>, endCalls |-> 0,
             lateWrites |-> 0]

\* the state when main starts, for a command line drawn from a set
Started(commandLines, agentPaths) ==
  /\ argv \in commandLines
  /\ env \in EnvCases
  /\ agentEnv \in agentPaths
  /\ args = NoArgs
  /\ pc = "start"
  /\ repoPath = <<>> /\ baseBranch = <<>> /\ headBranch = <<>> /\ repoName = <<>>
  /\ prId = [def |-> FALSE, val |-> 0]
  /\ diffFileName = <<>> /\ outputFileName = <<>> /\ cwd = <<>>
  /\ diffWritePath = Undefined /\ reviewOutputPath = <<>>
  /\ files = <<>>
  /\ stdout = <<>> /\ stderr = <<>>
  /\ hostExit = NotExited
  /\ firstChunk = TRUE /\ spinner = FALSE /\ spinnerIndex = 0
  /\ fileStream = NoStream
  /\ child = NoChild
  /\ received = <<>>
  /\ stages = <<>>
  /\ failure = "none"
  /\ httpStatus = 0
  /\ provider = NoRequest
  /\ gitDiff = NoDiff

Init == Started(ArgvCases, {NoAgentEnv})

-----------------------------------------------------------------------------
(* main, cli.ts 226-380 *)

\* mutant of Die: the diagnostic is printed and the process exits 0
DieExitZero(msg, cause) ==
  /\ stderr' = Append(stderr, msg)
  /\ hostExit' = Exited(0)
  /\ failure' = cause
  /\ pc' = "exited"

\* console.error(msg); process.exit(1): the failure exits of main and loadPrompt
Die(msg, cause) ==
  /\ stderr' = Append(stderr, msg)
  /\ hostExit' = Exited(1)
  /\ failure' = cause
  /\ pc' = "exited"

\* main().catch, cli.ts 377-380: a rejection of main prints the error after what
\* the error stream holds (log) and exits 1
MainCatch(log, msg, cause) ==
  /\ stderr' = Append(log, msg)
  /\ hostExit' = Exited(1)
  /\ failure' = cause
  /\ pc' = "exited"

\* cli.ts 227-245: --help, --version and --status print and exit 0
HelpVersionStatus ==
  /\ pc = "start"
  /\ \E f \in {<<"--help">>, <<"--version">>, <<"--status">>} : Includes(argv, f)
  /\ hostExit' = Exited(0)
  /\ pc' = "exited"
  /\ UNCHANGED <<mainVars, reviewVars, files, stderr, stages, failure, httpStatus, provider, gitDiff>>

\* cli.ts 253 and 257: nothing names a PR or a branch
NeedsInfo(a) == ~Truthy(a.prIdOrUrl) /\ ~a.base.def /\ ~a.head.def

\* cli.ts 247-257: parse the command line and decide whether to prompt
Begin ==
  /\ pc = "start"
  /\ ~\E f \in {<<"--help">>, <<"--version">>, <<"--status">>} : Includes(argv, f)
  /\ args' = parseArgs(argv)
  /\ pc' = IF NeedsInfo(args') /\ isAzureConfigured(env) THEN "askPr"
           ELSE IF NeedsInfo(args') THEN "askBaseHead"
           ELSE "dispatch"
  /\ stages' = Append(stages, "resolve")
  /\ UNCHANGED <<argv, env, agentEnv, repoPath, baseBranch, headBranch, prId, repoName,
                 diffFileName, outputFileName, cwd, diffWritePath, reviewOutputPath,
                 reviewVars, files, stderr, hostExit, failure, httpStatus, provider, gitDiff>>

\* promptForPrIdOrUrl, cli.ts 208-216, and cli.ts 254-257
AnswerPr(raw) ==
  /\ pc = "askPr"
  /\ LET prInput == Trim(raw)
         a == IF prInput # <<>> THEN [args EXCEPT !.prIdOrUrl = Def(prInput)] ELSE args
     IN /\ args' = a
        /\ pc' = IF NeedsInfo(a) THEN "askBaseHead" ELSE "dispatch"
  /\ UNCHANGED <<argv, env, agentEnv, repoPath, baseBranch, headBranch, prId, repoName,
                 diffFileName, outputFileName, cwd, diffWritePath, reviewOutputPath,
                 reviewVars, files, stderr, hostExit, stages, failure, httpStatus, provider, gitDiff>>

\* mutant of promptForBaseHead: a blank base answer is kept blank
promptForBaseHeadNoDefault(rawBase, rawHead) ==
  [base |-> Trim(rawBase), head |-> Trim(rawHead)]

\* promptForBaseHead, cli.ts 218-224
promptForBaseHead(rawBase, rawHead) ==
  [base |-> IF Trim(rawBase) # <<>> THEN Trim(rawBase) ELSE <<"main">>,
   head |-> Trim(rawHead)]

\* cli.ts 257-260
AnswerBaseHead(rawBase, rawHead) ==
  /\ pc = "askBaseHead"
  /\ LET p == promptForBaseHead(rawBase, rawHead)
     IN args' = [args EXCEPT !.base = Def(p.base), !.head = Def(p.head)]
  /\ pc' = "dispatch"
  /\ UNCHANGED <<argv, env, agentEnv, repoPath, baseBranch, headBranch, prId, repoName,
                 diffFileName, outputFileName, cwd, diffWritePath, reviewOutputPath,
                 reviewVars, files, stderr, hostExit, stages, failure, httpStatus, provider, gitDiff>>

\* getPrDetails, azure.ts 65-82: the arguments of the call that reaches fetch
RequestFor(id, orgUrlOverride, projectOverride) ==
  [requested |-> TRUE, prId |-> id, orgUrlOverride |-> orgUrlOverride,
   projectOverride |-> projectOverride, answered |-> FALSE, data |-> NoData]

\* cli.ts 269-282: the PR branch up to the request to the provider
DispatchPr ==
  /\ pc = "dispatch"
  /\ Truthy(args.prIdOrUrl)
  /\ LET parsed == parsePrUrl(args.prIdOrUrl.val) IN
       IF parsed.ok
         THEN IF HasRequestConfig(env, TRUE)
                THEN /\ pc' = "fetch"
                     /\ provider' = RequestFor(parsed.prId,
                                       Def(<<"https://", "dev.azure.com", "/">> \o parsed.org),
                                       Def(parsed.project))
                     /\ UNCHANGED <<stderr, hostExit, failure>>
                ELSE /\ MainCatch(stderr, MsgMissingConfig, "config")
                     /\ UNCHANGED provider
       ELSE IF ~isAzureConfigured(env)
         THEN /\ Die(MsgAzureRequired, "config")
              /\ UNCHANGED provider
       ELSE /\ pc' = "fetch"
            /\ provider' = RequestFor(args.prIdOrUrl.val, Undefined, Undefined)
            /\ UNCHANGED <<stderr, hostExit, failure>>
  /\ UNCHANGED <<mainVars, reviewVars, files, stages, httpStatus, gitDiff>>

\* mutant of FetchError: every failed request gets the generic message
FetchErrorGeneric(status) == MsgFetchFailed

\* getPrDetails, azure.ts 88-95: the error thrown for a response that is not ok
FetchError(status) == IF status = 401 THEN MsgUnauthorized ELSE MsgFetchFailed

\* azure.ts 88-107 and cli.ts 273-290: the provider answers; on success the target
\* is taken from the details and the clone must exist
ProviderResponds(status, data, exists) ==
  /\ pc = "fetch"
  /\ httpStatus' = status
  /\ provider' = [provider EXCEPT !.answered = TRUE,
                                  !.data = IF status = 200 THEN data ELSE NoData]
  /\ IF status # 200
       THEN /\ MainCatch(stderr, FetchError(status), "provider")
            /\ UNCHANGED <<repoPath, baseBranch, headBranch, prId, repoName>>
     ELSE LET details == PrDetailsOf(data)
              parsed == parsePrUrl(args.prIdOrUrl.val)
              name == IF parsed.ok THEN parsed.repository ELSE details.repository
          IN /\ repoName' = name
             /\ prId' = [def |-> TRUE, val |-> details.pullRequestId]
             /\ baseBranch' = details.targetBranch
             /\ headBranch' = details.sourceBranch
             /\ repoPath' = Join(getReposRoot(env), name)
             /\ IF ~exists
                  THEN Die(MsgRepoNotFound, "clone")
                  ELSE /\ pc' = "naming"
                       /\ UNCHANGED <<stderr, hostExit, failure>>
  /\ UNCHANGED <<argv, env, agentEnv, args, diffFileName, outputFileName, cwd, diffWritePath,
                 reviewOutputPath, reviewVars, files, stages, gitDiff>>

\* cli.ts 292-299: the branches come from the arguments, or are asked for
DispatchDirect ==
  /\ pc = "dispatch"
  /\ ~Truthy(args.prIdOrUrl)
  /\ IF args.base.def /\ args.head.def
       THEN /\ baseBranch' = args.base.val
            /\ headBranch' = args.head.val
            /\ pc' = "selectRepo"
       ELSE /\ pc' = "askBaseHead2"
            /\ UNCHANGED <<baseBranch, headBranch>>
  /\ UNCHANGED <<argv, env, agentEnv, args, repoPath, prId, repoName,
                 diffFileName, outputFileName, cwd, diffWritePath, reviewOutputPath,
                 reviewVars, files, stderr, hostExit, stages, failure, httpStatus, provider, gitDiff>>

\* cli.ts 296-298
AnswerBaseHead2(rawBase, rawHead) ==
  /\ pc = "askBaseHead2"
  /\ LET prompted == promptForBaseHead(rawBase, rawHead)
     IN /\ baseBranch' = prompted.base
        /\ headBranch' = prompted.head
  /\ pc' = "selectRepo"
  /\ UNCHANGED <<argv, env, agentEnv, args, repoPath, prId, repoName,
                 diffFileName, outputFileName, cwd, diffWritePath, reviewOutputPath,
                 reviewVars, files, stderr, hostExit, stages, failure, httpStatus, provider, gitDiff>>

\* cli.ts 327-330: the repository must exist
CheckRepoExists(exists) ==
  IF ~exists
    THEN Die(MsgRepoNotFound, "clone")
    ELSE /\ pc' = "naming"
         /\ UNCHANGED <<stderr, hostExit, failure>>

\* mutant of SelectRepo: with --output-dir the git root of the working directory
\* is still tried before the prompt
SelectRepoGitRootFirst(gitRootFound, exists) ==
  /\ pc = "selectRepo"
  /\ IF headBranch = <<>>
       THEN /\ Die(MsgHeadRequired, "head")
            /\ UNCHANGED <<repoPath, repoName>>
     ELSE IF Truthy(args.repo)
       THEN LET rp == IF IsAbsolute(args.repo.val) THEN args.repo.val
                      ELSE Join(getReposRoot(env), args.repo.val)
            IN /\ repoPath' = rp
               /\ repoName' = Basename(rp)
               /\ CheckRepoExists(exists)
     ELSE IF gitRootFound
       THEN /\ repoPath' = CwdRepoRoot
            /\ repoName' = Basename(CwdRepoRoot)
            /\ CheckRepoExists(TRUE)
     ELSE /\ pc' = IF Truthy(args.outputDir) THEN "askRepoOut" ELSE "askRepoCwd"
          /\ UNCHANGED <<repoPath, repoName, stderr, hostExit, failure>>
  /\ UNCHANGED <<argv, env, agentEnv, args, baseBranch, headBranch, prId,
                 diffFileName, outputFileName, cwd, diffWritePath, reviewOutputPath,
                 reviewVars, files, stages, httpStatus, provider, gitDiff>>

\* cli.ts 300-330: the head branch is required; then the repository is the one
\* named by --repo, else asked for when --output-dir is given, else the git root
\* of the working directory, else asked for
SelectRepo(gitRootFound, exists) ==
  /\ pc = "selectRepo"
  /\ IF headBranch = <<>>
       THEN /\ Die(MsgHeadRequired, "head")
            /\ UNCHANGED <<repoPath, repoName>>
     ELSE IF Truthy(args.repo)
       THEN LET rp == IF IsAbsolute(args.repo.val) THEN args.repo.val
                      ELSE Join(getReposRoot(env), args.repo.val)
            IN /\ repoPath' = rp
               /\ repoName' = Basename(rp)
               /\ CheckRepoExists(exists)
     ELSE IF Truthy(args.outputDir)
       THEN /\ pc' = "askRepoOut"
            /\ UNCHANGED <<repoPath, repoName, stderr, hostExit, failure>>
     ELSE IF gitRootFound
       THEN /\ repoPath' = CwdRepoRoot
            /\ repoName' = Basename(CwdRepoRoot)
            /\ CheckRepoExists(TRUE)
     ELSE /\ pc' = "askRepoCwd"
          /\ UNCHANGED <<repoPath, repoName, stderr, hostExit, failure>>
  /\ UNCHANGED <<argv, env, agentEnv, args, baseBranch, headBranch, prId,
                 diffFileName, outputFileName, cwd, diffWritePath, reviewOutputPath,
                 reviewVars, files, stages, httpStatus, provider, gitDiff>>

\* parseInt(s, 10): the value of the leading digits; nan without any
DigitValue(lx) ==
  CASE lx = "0" -> 0 [] lx = "1" -> 1 [] lx = "2" -> 2 [] lx = "3" -> 3 [] lx = "4" -> 4
    [] lx = "5" -> 5 [] lx = "6" -> 6 [] lx = "7" -> 7 [] lx = "8" -> 8 [] lx = "9" -> 9
RECURSIVE ParseDigits(_, _)
ParseDigits(s, acc) ==
  IF Len(s) > 0 /\ s[1] \in DigitLexemes
    THEN ParseDigits(Tail(s), 10 * acc + DigitValue(s[1]))
    ELSE acc
parseInt(s) ==
  LET t == TrimStart(s) IN
  IF Len(t) > 0 /\ t[1] \in DigitLexemes
    THEN [nan |-> FALSE, val |-> ParseDigits(t, 0)]
    ELSE [nan |-> TRUE, val |-> 0]

\* promptForRepo, cli.ts 192-206
promptForRepo(reposList, raw) ==
  LET answer == Trim(raw)
      n == parseInt(answer)
  IN IF ~n.nan /\ n.val >= 1 /\ n.val <= Len(reposList) THEN reposList[n.val] ELSE answer

\* mutant of AnswerRepo: a blank answer selects the first repository of the list
AnswerRepoBlankFirst(raw, exists) ==
  /\ pc \in {"askRepoOut", "askRepoCwd"}
  /\ LET answered == promptForRepo(ReposList, raw)
         name == IF answered = <<>> THEN ReposList[1] ELSE answered
     IN /\ repoName' = name
        /\ repoPath' = Join(getReposRoot(env), name)
        /\ CheckRepoExists(exists)
  /\ UNCHANGED <<argv, env, agentEnv, args, baseBranch, headBranch, prId,
                 diffFileName, outputFileName, cwd, diffWritePath, reviewOutputPath,
                 reviewVars, files, stages, httpStatus, provider, gitDiff>>

\* cli.ts 308-313 and 319-324: the answer to "Which repository?"
AnswerRepo(raw, exists) ==
  /\ pc \in {"askRepoOut", "askRepoCwd"}
  /\ LET name == promptForRepo(ReposList, raw) IN
       IF name = <<>>
         THEN /\ Die(IF pc = "askRepoOut" THEN MsgRepoRequired ELSE MsgNoDetect, "repo")
              /\ UNCHANGED <<repoPath, repoName>>
         ELSE /\ repoName' = name
              /\ repoPath' = Join(getReposRoot(env), name)
              /\ CheckRepoExists(exists)
  /\ UNCHANGED <<argv, env, agentEnv, args, baseBranch, headBranch, prId,
                 diffFileName, outputFileName, cwd, diffWritePath, reviewOutputPath,
                 reviewVars, files, stages, httpStatus, provider, gitDiff>>

-----------------------------------------------------------------------------
(* Artifact naming, cli.ts 188-190 and 333-357 *)

DIFF_FILE_BASE == <<".codehermit-diff.txt">>
OUTPUT_FILE_BASE == <<".codehermit-output.md">>

\* mutant of sanitizeBranchForFile: only the forward slash is replaced
sanitizeSlashOnly(branch) ==
  [i \in 1..Len(branch) |-> IF branch[i] = "/" THEN "_" ELSE branch[i]]

\* sanitizeBranchForFile, cli.ts 188-190
sanitizeBranchForFile(branch) ==
  [i \in 1..Len(branch) |->
     IF branch[i] \in {"/", "\\"} \cup SpaceLexemes THEN "_" ELSE branch[i]]

DigitLexeme(d) ==
  CASE d = 0 -> "0" [] d = 1 -> "1" [] d = 2 -> "2" [] d = 3 -> "3" [] d = 4 -> "4"
    [] d = 5 -> "5" [] d = 6 -> "6" [] d = 7 -> "7" [] d = 8 -> "8" [] d = 9 -> "9"
\* `${n}` of a non-negative integer
RECURSIVE NumStr(_)
NumStr(n) == IF n < 10 THEN <<DigitLexeme(n)>> ELSE Append(NumStr(n \div 10), DigitLexeme(n % 10))

\* mutant of NameStem: the output directory is looked at before the PR id
NameStemOutDirFirst(pr, outDir, base, head) ==
  IF Truthy(outDir)
    THEN <<".">> \o sanitizeBranchForFile(base) \o <<"_">> \o sanitizeBranchForFile(head)
  ELSE IF pr.def /\ pr.val # 0 THEN <<".">> \o NumStr(pr.val)
  ELSE <<>>

\* cli.ts 333-342: the stem shared by both file names
NameStem(pr, outDir, base, head) ==
  IF pr.def /\ pr.val # 0 THEN <<".">> \o NumStr(pr.val)
  ELSE IF Truthy(outDir)
    THEN <<".">> \o sanitizeBranchForFile(base) \o <<"_">> \o sanitizeBranchForFile(head)
  ELSE <<>>

\* cli.ts 333-357
Naming ==
  /\ pc = "naming"
  /\ LET stem == NameStem(prId, args.outputDir, baseBranch, headBranch)
         dName == stem \o DIFF_FILE_BASE
         oName == stem \o OUTPUT_FILE_BASE
     IN /\ diffFileName' = dName
        /\ outputFileName' = oName
        /\ IF Truthy(args.outputDir)
             THEN LET outSubdir == PathResolve(ProcessCwd, args.outputDir.val)
                      repoSubdir == Join(outSubdir, repoName)
                  IN /\ cwd' = repoSubdir
                     /\ diffWritePath' = Def(Join(repoSubdir, dName))
                     /\ reviewOutputPath' = Join(repoSubdir, oName)
             ELSE /\ cwd' = repoPath
                  /\ diffWritePath' = Undefined
                  /\ reviewOutputPath' = Join(repoPath, oName)
  /\ pc' = "diff"
  /\ UNCHANGED <<argv, env, agentEnv, args, repoPath, baseBranch, headBranch, prId, repoName,
                 reviewVars, files, stderr, hostExit, stages, failure, httpStatus, provider, gitDiff>>

-----------------------------------------------------------------------------
(* getDiff, get-diff.ts 25-87 *)

\* mutant of WriteFile: c is added after what the file at p holds
WriteFileAppend(fs, p, c) ==
  [q \in (DOMAIN fs) \cup {p} |->
     IF q # p THEN fs[q] ELSE IF p \in DOMAIN fs THEN fs[p] \o c ELSE c]

\* fs.writeFileSync / createWriteStream: the file at path p now holds c
WriteFile(fs, p, c) == [q \in (DOMAIN fs) \cup {p} |-> IF q = p THEN c ELSE fs[q]]

\* fetchBranch, get-diff.ts 25-31: a failed fetch is a warning
FetchWarnings(failBase, failHead) ==
  (IF failBase THEN <<MsgFetchWarning>> ELSE <<>>) \o (IF failHead THEN <<MsgFetchWarning>> ELSE <<>>)

\* mutant of DiffThrows: what a failed command printed is discarded
DiffThrowsOnAnyFailure(cmdOk, out) == ~cmdOk

\* getDiffContent, get-diff.ts 38-51: the command's output; when the command
\* fails, what it had printed, if anything, else an error
DiffThrows(cmdOk, out) == ~cmdOk /\ out = <<>>

\* get-diff.ts 42 and 86: git diff exited with status 0 or not and printed out;
\* getDiff returns diffLength = diff.length unless getDiffContent threw
DiffCalled(g, cmdOk, out) ==
  [calls |-> g.calls + 1, ok |-> cmdOk, out |-> out,
   returned |-> IF DiffThrows(cmdOk, out) THEN [def |-> FALSE, val |-> 0]
                ELSE [def |-> TRUE, val |-> Len(out)]]

\* mutant of GetDiff: a failed diff is reported and the run goes on to the review
GetDiffContinue(failBase, failHead, cmdOk, out) ==
  /\ pc = "diff"
  /\ stages' = Append(stages, "diff")
  /\ IF DiffThrows(cmdOk, out)
       THEN /\ stderr' = stderr \o FetchWarnings(failBase, failHead) \o <<MsgDiffFailed>>
            /\ UNCHANGED <<files, hostExit, failure>>
       ELSE LET diffPath == IF diffWritePath.def THEN diffWritePath.val
                            ELSE Join(repoPath, diffFileName)
            IN /\ files' = WriteFile(files, diffPath, out)
               /\ stderr' = stderr \o FetchWarnings(failBase, failHead)
               /\ UNCHANGED <<hostExit, failure>>
  /\ pc' = "review"
  /\ gitDiff' = DiffCalled(gitDiff, cmdOk, out)
  /\ UNCHANGED <<mainVars, reviewVars, httpStatus, provider>>

\* mutant of GetDiff: a failed fetch of either branch ends the run
GetDiffFetchFatal(failBase, failHead, cmdOk, out) ==
  /\ pc = "diff"
  /\ stages' = Append(stages, "diff")
  /\ IF failBase \/ failHead
       THEN /\ MainCatch(stderr, MsgFetchWarning, "fetch")
            /\ UNCHANGED files
     ELSE IF DiffThrows(cmdOk, out)
       THEN /\ MainCatch(stderr, MsgDiffFailed, "diff")
            /\ UNCHANGED files
       ELSE LET diffPath == IF diffWritePath.def THEN diffWritePath.val
                            ELSE Join(repoPath, diffFileName)
            IN /\ files' = WriteFile(files, diffPath, out)
               /\ pc' = "review"
               /\ UNCHANGED <<stderr, hostExit, failure>>
  /\ gitDiff' = DiffCalled(gitDiff, cmdOk, out)
  /\ UNCHANGED <<mainVars, reviewVars, httpStatus, provider>>

\* cli.ts 361-367 and get-diff.ts 76-87
GetDiff(failBase, failHead, cmdOk, out) ==
  /\ pc = "diff"
  /\ stages' = Append(stages, "diff")
  /\ IF DiffThrows(cmdOk, out)
       THEN /\ MainCatch(stderr \o FetchWarnings(failBase, failHead), MsgDiffFailed, "diff")
            /\ UNCHANGED files
       ELSE LET diffPath == IF diffWritePath.def THEN diffWritePath.val
                            ELSE Join(repoPath, diffFileName)
            IN /\ files' = WriteFile(files, diffPath, out)
               /\ stderr' = stderr \o FetchWarnings(failBase, failHead)
               /\ pc' = "review"
               /\ UNCHANGED <<hostExit, failure>>
  /\ gitDiff' = DiffCalled(gitDiff, cmdOk, out)
  /\ UNCHANGED <<mainVars, reviewVars, httpStatus, provider>>

-----------------------------------------------------------------------------
(* runReview, cli.ts 457-520 *)

spinnerFrames == <<"|", "/", "-", "\\">>

\* the exit codes of the agent: null (ended by a signal), 0, 2
AgentCodes == { [null |-> TRUE, val |-> 0], [null |-> FALSE, val |-> 0],
                [null |-> FALSE, val |-> 2] }
\* the error codes of a failed spawn
SpawnErrors == {"ENOENT", "EACCES"}

\* mutant of StreamWrite: the chunk is put in front of what the stream holds
StreamWritePrepend(fs, chunk) ==
  IF fs.ended THEN [fs EXCEPT !.lateWrites = @ + 1]
  ELSE [fs EXCEPT !.chunks = <<chunk>> \o @]

\* fileStream.write(chunk): appended while the stream is open; after end() the
\* chunk is refused (write after end)
StreamWrite(fs, chunk) ==
  IF fs.ended THEN [fs EXCEPT !.lateWrites = @ + 1]
  ELSE [fs EXCEPT !.chunks = Append(@, chunk)]

\* fileStream.end(): the stream is ended; a repeated call changes nothing more
StreamEnd(fs) == [fs EXCEPT !.ended = TRUE, !.endCalls = @ + 1]

\* String.prototype.toLowerCase on the lexemes that spell the extension
ToLowerCase(s) == [i \in 1..Len(s) |-> IF s[i] \in {".PS1", ".Ps1"} THEN ".ps1" ELSE s[i]]
\* String.prototype.endsWith for a one-lexeme suffix
EndsWith(s, lx) == Len(s) > 0 /\ s[Len(s)] = lx

\* mutant of getAgentSpawnOptions: the extension is compared as it is written
getAgentSpawnOptionsCaseSensitive(e) ==
  LET explicit == IF Truthy(e.AGENT_PATH) THEN e.AGENT_PATH ELSE e.CURSOR_AGENT_PATH
      agentPath == IF Truthy(explicit) THEN explicit.val ELSE <<"agent">>
  IN IF EndsWith(agentPath, ".ps1")
       THEN [command |-> <<"powershell">>,
             args |-> << <<"-NoProfile">>, <<"-ExecutionPolicy">>, <<"Bypass">>, <<"-File">>,
                         agentPath >>]
       ELSE [command |-> agentPath, args |-> <<>>]

\* getAgentSpawnOptions, cli.ts 433-444
getAgentSpawnOptions(e) ==
  LET explicit == IF Truthy(e.AGENT_PATH) THEN e.AGENT_PATH ELSE e.CURSOR_AGENT_PATH
      agentPath == IF Truthy(explicit) THEN explicit.val ELSE <<"agent">>
      lower == ToLowerCase(agentPath)
  IN IF EndsWith(lower, ".ps1")
       THEN [command |-> <<"powershell">>,
             args |-> << <<"-NoProfile">>, <<"-ExecutionPolicy">>, <<"Bypass">>, <<"-File">>,
                         agentPath >>]
       ELSE [command |-> agentPath, args |-> <<>>]

\* prompt.md, line 1, as loadPrompt returns it (cli.ts 414-417)
PromptTemplate ==
  <<"Review the pull request diff in the file ", ".codehermit-diff.txt",
    " (in the root of this workspace).">>

\* the replacement string of String.prototype.replace: $& stands for the matched
\* text and $$ for a dollar sign
RECURSIVE ExpandReplacement(_, _)
ExpandReplacement(replacement, matched) ==
  IF replacement = <<>> THEN <<>>
  ELSE (IF Head(replacement) = "$&" THEN <<matched>>
        ELSE IF Head(replacement) = "$$" THEN <<"$">>
        ELSE <<Head(replacement)>>) \o ExpandReplacement(Tail(replacement), matched)

\* template.replace(/\.codehermit-diff\.txt/g, replacement), cli.ts 461-464
RECURSIVE ReplaceDiffName(_, _)
ReplaceDiffName(template, replacement) ==
  IF template = <<>> THEN <<>>
  ELSE (IF Head(template) = ".codehermit-diff.txt"
          THEN ExpandReplacement(replacement, Head(template))
          ELSE <<Head(template)>>) \o ReplaceDiffName(Tail(template), replacement)

\* cli.ts 475: the argument list given to spawn
SpawnArgs(agentBaseArgs, prompt) == agentBaseArgs \o << <<"--trust">>, <<"-p">>, prompt >>

\* cli.ts 457-479: load the prompt, open the output file, start the spinner, spawn
RunReviewStart(promptFound, spawnErr) ==
  /\ pc = "review"
  /\ stages' = Append(stages, "invoke")
  /\ IF ~promptFound
       THEN /\ Die(MsgPromptNotFound, "prompt")
            /\ UNCHANGED <<files, fileStream, spinner, child>>
       ELSE /\ files' = WriteFile(files, reviewOutputPath, <<>>)
            /\ fileStream' = [fileStream EXCEPT !.opened = TRUE]
            /\ stderr' = Append(stderr, MsgRunning)
            /\ spinner' = TRUE
            /\ LET prompt == ReplaceDiffName(PromptTemplate, diffFileName)
                   agent == getAgentSpawnOptions(agentEnv)
               IN child' = [child EXCEPT
                              !.state = IF spawnErr = "none" THEN "running" ELSE "failed",
                              !.err = spawnErr,
                              !.command = agent.command,
                              !.args = SpawnArgs(agent.args, prompt),
                              !.cwd = cwd]
            /\ pc' = "running"
            /\ UNCHANGED <<hostExit, failure>>
  /\ UNCHANGED <<mainVars, stdout, firstChunk, spinnerIndex, received, httpStatus, provider, gitDiff>>

\* cli.ts 471-473: the interval timer renders the next frame
SpinnerTick ==
  /\ pc = "running"
  /\ spinner
  /\ child.state # "failed"
  /\ spinnerIndex < MaxTicks
  /\ stderr' = Append(stderr, spinnerFrames[(spinnerIndex % Len(spinnerFrames)) + 1])
  /\ spinnerIndex' = spinnerIndex + 1
  /\ UNCHANGED <<mainVars, stdout, firstChunk, spinner, fileStream, child, received,
                 pc, files, hostExit, stages, failure, httpStatus, provider, gitDiff>>

\* the agent writes its next chunk to its stdout
AgentWrite ==
  /\ pc = "running"
  /\ child.state = "running"
  /\ Len(child.emitted) < MaxChunks
  /\ LET chunk == Len(child.emitted) + 1
     IN child' = [child EXCEPT !.pipe = Append(@, chunk), !.emitted = Append(@, chunk)]
  /\ UNCHANGED <<mainVars, stdout, firstChunk, spinner, spinnerIndex, fileStream, received,
                 pc, files, stderr, hostExit, stages, failure, httpStatus, provider, gitDiff>>

\* the agent exits
AgentExit(code) ==
  /\ pc = "running"
  /\ child.state = "running"
  /\ child' = [child EXCEPT !.state = "exited", !.code = code]
  /\ UNCHANGED <<mainVars, stdout, firstChunk, spinner, spinnerIndex, fileStream, received,
                 pc, files, stderr, hostExit, stages, failure, httpStatus, provider, gitDiff>>

\* mutant of StdoutData: the first chunk clears the indicator line and leaves
\* the timer running
StdoutDataNoCancel ==
  /\ pc = "running"
  /\ child.state \in {"running", "exited"}
  /\ child.pipe # <<>>
  /\ LET chunk == Head(child.pipe) IN
       /\ child' = [child EXCEPT !.pipe = Tail(@)]
       /\ received' = Append(received, chunk)
       /\ IF firstChunk
            THEN /\ firstChunk' = FALSE
                 /\ stderr' = Append(stderr, MsgClear)
            ELSE UNCHANGED <<firstChunk, stderr>>
       /\ stdout' = Append(stdout, chunk)
       /\ fileStream' = StreamWrite(fileStream, chunk)
       /\ files' = WriteFile(files, reviewOutputPath, fileStream'.chunks)
  /\ UNCHANGED <<mainVars, spinner, spinnerIndex, pc, hostExit, stages, failure, httpStatus,
                 provider, gitDiff>>

\* cli.ts 482-490: child.stdout 'data'
StdoutData ==
  /\ pc = "running"
  /\ child.state \in {"running", "exited"}
  /\ child.pipe # <<>>
  /\ LET chunk == Head(child.pipe) IN
       /\ child' = [child EXCEPT !.pipe = Tail(@)]
       /\ received' = Append(received, chunk)
       /\ IF firstChunk
            THEN /\ firstChunk' = FALSE
                 /\ spinner' = FALSE
                 /\ stderr' = Append(stderr, MsgClear)
            ELSE UNCHANGED <<firstChunk, spinner, stderr>>
       /\ stdout' = Append(stdout, chunk)
       /\ fileStream' = StreamWrite(fileStream, chunk)
       /\ files' = WriteFile(files, reviewOutputPath, fileStream'.chunks)
  /\ UNCHANGED <<mainVars, spinnerIndex, pc, hostExit, stages, failure, httpStatus, provider, gitDiff>>

\* cli.ts 491-495: child.stdout 'end', once the agent's stdout is closed and read
StdoutEnd ==
  /\ pc = "running"
  /\ child.state = "exited"
  /\ child.pipe = <<>>
  /\ ~child.ended
  /\ child' = [child EXCEPT !.ended = TRUE]
  /\ spinner' = IF firstChunk THEN FALSE ELSE spinner
  /\ stderr' = Append(stderr, MsgClear)
  /\ fileStream' = StreamEnd(fileStream)
  /\ UNCHANGED <<mainVars, stdout, firstChunk, spinnerIndex, received,
                 pc, files, hostExit, stages, failure, httpStatus, provider, gitDiff>>

\* mutant of ChildError: the error is printed raw whatever its code
ChildErrorRaw ==
  /\ pc = "running"
  /\ child.state = "failed"
  /\ spinner' = FALSE
  /\ fileStream' = StreamEnd(fileStream)
  /\ stderr' = stderr \o <<MsgClear, MsgRawError>>
  /\ hostExit' = Exited(1)
  /\ failure' = "spawn"
  /\ pc' = "exited"
  /\ UNCHANGED <<mainVars, stdout, firstChunk, spinnerIndex, child, received,
                 files, stages, httpStatus, provider, gitDiff>>

\* cli.ts 497-511: child 'error' (the spawn failed)
ChildError ==
  /\ pc = "running"
  /\ child.state = "failed"
  /\ spinner' = FALSE
  /\ fileStream' = StreamEnd(fileStream)
  /\ stderr' = stderr \o <<MsgClear, IF child.err = "ENOENT" THEN MsgAgentNotFound ELSE MsgRawError>>
  /\ hostExit' = Exited(1)
  /\ failure' = "spawn"
  /\ pc' = "exited"
  /\ UNCHANGED <<mainVars, stdout, firstChunk, spinnerIndex, child, received,
                 files, stages, httpStatus, provider, gitDiff>>

\* mutant of ExitCodeOf: the agent's code is dropped
ExitCodeAlwaysZero(code) == 0

\* process.exit(code ?? 0), cli.ts 518
ExitCodeOf(code) == IF code.null THEN 0 ELSE code.val

\* mutant of ChildExit: the handler ends the file stream and reports, and the
\* host keeps running
ChildExitKeepsRunning ==
  /\ pc = "running"
  /\ child.state = "exited"
  /\ spinner' = FALSE
  /\ fileStream' = StreamEnd(fileStream)
  /\ stderr' = stderr \o <<MsgClear, MsgSaved>>
  /\ UNCHANGED <<mainVars, stdout, firstChunk, spinnerIndex, child, received, pc, hostExit,
                 files, stages, failure, httpStatus, provider, gitDiff>>

\* mutant of ChildExit: the handler does not end the file stream
ChildExitNoEnd ==
  /\ pc = "running"
  /\ child.state = "exited"
  /\ spinner' = FALSE
  /\ stderr' = stderr \o <<MsgClear, MsgSaved>>
  /\ hostExit' = Exited(ExitCodeOf(child.code))
  /\ pc' = "exited"
  /\ UNCHANGED <<mainVars, stdout, firstChunk, spinnerIndex, child, received,
                 fileStream, files, stages, failure, httpStatus, provider, gitDiff>>

\* mutant of ChildExit: the handler does not stop and clear the indicator
ChildExitNoClear ==
  /\ pc = "running"
  /\ child.state = "exited"
  /\ fileStream' = StreamEnd(fileStream)
  /\ stderr' = stderr \o <<MsgSaved>>
  /\ hostExit' = Exited(ExitCodeOf(child.code))
  /\ pc' = "exited"
  /\ UNCHANGED <<mainVars, stdout, firstChunk, spinner, spinnerIndex, child, received,
                 files, stages, failure, httpStatus, provider, gitDiff>>

\* cli.ts 513-519: child 'exit'
ChildExit ==
  /\ pc = "running"
  /\ child.state = "exited"
  /\ spinner' = FALSE
  /\ fileStream' = StreamEnd(fileStream)
  /\ stderr' = stderr \o <<MsgClear, MsgSaved>>
  /\ hostExit' = Exited(ExitCodeOf(child.code))
  /\ pc' = "exited"
  /\ UNCHANGED <<mainVars, stdout, firstChunk, spinnerIndex, child, received,
                 files, stages, failure, httpStatus, provider, gitDiff>>

-----------------------------------------------------------------------------

Next ==
  \/ HelpVersionStatus
  \/ Begin
  \/ \E raw \in PrAnswers : AnswerPr(raw)
  \/ \E b \in BaseAnswers, h \in HeadAnswers : AnswerBaseHead(b, h)
  \/ DispatchPr
  \/ \E status \in {200, 401, 404}, data \in ProviderData, exists \in BOOLEAN :
       ProviderResponds(status, data, exists)
  \/ DispatchDirect
  \/ \E b \in BaseAnswers, h \in HeadAnswers : AnswerBaseHead2(b, h)
  \/ \E found \in BOOLEAN, exists \in BOOLEAN : SelectRepo(found, exists)
  \/ \E raw \in RepoAnswers, exists \in BOOLEAN : AnswerRepo(raw, exists)
  \/ Naming
  \/ \E fb \in BOOLEAN, fh \in BOOLEAN, ok \in BOOLEAN, out \in DiffTexts : GetDiff(fb, fh, ok, out)
  \/ \E found \in BOOLEAN, err \in SpawnErrors \cup {"none"} : RunReviewStart(found, err)
  \/ SpinnerTick
  \/ AgentWrite
  \/ \E code \in AgentCodes : AgentExit(code)
  \/ StdoutData
  \/ StdoutEnd
  \/ ChildError
  \/ ChildExit

Spec == Init /\ [][Next]_vars

-----------------------------------------------------------------------------
(* The resolution stage of main (cli.ts 247-357) on a wide set of command lines:
   every PR URL of the fixed shape over a few segment values, the URLs one edit
   away from that shape, and branch names made of separators and blanks *)

MaxBranchLen == 2

\* the values a path segment takes, the two marker words among them
SegNames == { <<"Org">>, <<"Proj">>, <<"Repo">>, <<"_git">>, <<"pullrequest">> }
IdValues == { <<"7">>, <<"4", "2">> }

RECURSIVE JoinParts(_)
\* '/' + parts.join('/')
JoinParts(parts) ==
  IF parts = <<>> THEN <<>> ELSE <<"/">> \o Head(parts) \o JoinParts(Tail(parts))

\* the path segments of https://dev.azure.com/<org>/<project>/_git/<repository>/pullrequest/<id>
ShapeParts(o, p, r, id) == <<o, p, <<"_git">>, r, <<"pullrequest">>, id>>
ShapedUrl(o, p, r, id) == <<"https://", "dev.azure.com">> \o JoinParts(ShapeParts(o, p, r, id))
ShapedUrls == { ShapedUrl(o, p, r, id) : o \in SegNames, p \in SegNames, r \in SegNames,
                                         id \in IdValues }

\* one URL of the shape and the strings one edit away from it
CanonParts == ShapeParts(<<"Org">>, <<"Proj">>, <<"Repo">>, <<"4", "2">>)
EditTokens == { <<"x">>, <<"_git">>, <<"pullrequest">>, <<"7">> }
Without(parts, i) == SubSeq(parts, 1, i - 1) \o SubSeq(parts, i + 1, Len(parts))
WithAt(parts, i, t) == SubSeq(parts, 1, i - 1) \o <<t>> \o SubSeq(parts, i, Len(parts))
EditedParts ==
  { Without(CanonParts, i) : i \in 1..Len(CanonParts) }
    \cup { [CanonParts EXCEPT ![i] = t] : i \in 1..Len(CanonParts), t \in EditTokens }
    \cup { WithAt(CanonParts, i, t) : i \in 1..(Len(CanonParts) + 1), t \in EditTokens }
EditedUrls ==
  { scheme \o host \o JoinParts(parts) :
      scheme \in { <<>>, <<"https://">> },
      host \in { <<>>, <<"dev.azure.com">>, <<"example.com">> },
      parts \in EditedParts \cup {CanonParts} }

\* branch names: up to MaxBranchLen characters, separators and blanks among them,
\* and the empty string (an argument given as "")
BranchLexemes == { "f", "/", "\\", " " }
BranchNames == UNION { [1..n -> BranchLexemes] : n \in 0..MaxBranchLen }

\* codehermit 42 --output-dir out
ArgvPrOutputDir == << S_id, <<"--output-dir">>, <<"out">> >>

ArgvResolve ==
  ArgvCases
    \cup { ArgvPrOutputDir }
    \cup { << <<"--pr">>, u >> : u \in ShapedUrls \cup EditedUrls }
    \cup { << u >> : u \in EditedUrls }
    \cup { << <<"--base">>, b, <<"--head">>, h >> : b \in BranchNames, h \in BranchNames }
    \cup { << <<"-o">>, <<"out">>, <<"--base">>, b, <<"--head">>, h >> :
             b \in BranchNames, h \in BranchNames }

\* the provider's JSON bodies: refs with and without the prefix, two repositories
ProviderDataWide ==
  [ pullRequestId : {7, 42},
    repository : { <<"Repo">>, <<"Other">> },
    sourceRefName : { REFS_HEADS \o <<"feature", "/", "y">>, <<"feature", "/", "y">>,
                      REFS_HEADS \o REFS_HEADS \o <<"z">> },
    targetRefName : { REFS_HEADS \o <<"main">>, <<"main">> } ]

InitResolve == Started(ArgvResolve, {NoAgentEnv})

NextResolve ==
  \/ HelpVersionStatus
  \/ Begin
  \/ \E raw \in PrAnswers : AnswerPr(raw)
  \/ \E b \in BaseAnswers, h \in HeadAnswers : AnswerBaseHead(b, h)
  \/ DispatchPr
  \/ \E status \in {200, 401, 404}, data \in ProviderDataWide, exists \in BOOLEAN :
       ProviderResponds(status, data, exists)
  \/ DispatchDirect
  \/ \E b \in BaseAnswers, h \in HeadAnswers : AnswerBaseHead2(b, h)
  \/ \E found \in BOOLEAN, exists \in BOOLEAN : SelectRepo(found, exists)
  \/ \E raw \in RepoAnswers, exists \in BOOLEAN : AnswerRepo(raw, exists)
  \/ Naming

SpecResolve == InitResolve /\ [][NextResolve]_vars

-----------------------------------------------------------------------------
(* main up to the spawn of the agent (cli.ts 226-479), for every setting of the
   agent path and for a branch name that spells a replacement pattern *)

\* codehermit -o out --base main --head fix$&
ArgvDollarBranch ==
  << <<"-o">>, <<"out">>, <<"--base">>, S_main, <<"--head">>, <<"fix", "$&">> >>

ArgvSpawn == ArgvCases \cup { ArgvPrOutputDir, ArgvDollarBranch }

\* the values of AGENT_PATH and CURSOR_AGENT_PATH: unset, empty, scripts with the
\* extension in either case, plain executables, .ps1 not at the end
AgentEnvCases ==
  [ AGENT_PATH : { Undefined, Def(<<>>), Def(<<"C:/tools/agent", ".ps1">>),
                   Def(<<"agent", ".PS1">>), Def(<<"/usr/bin/agent">>),
                   Def(<<"agent", ".ps1", ".bak">>) },
    CURSOR_AGENT_PATH : { Undefined, Def(<<"cursor", ".Ps1">>), Def(<<"cursor-agent">>) } ]

InitSpawn == Started(ArgvSpawn, AgentEnvCases)

NextSpawn ==
  \/ HelpVersionStatus
  \/ Begin
  \/ \E raw \in PrAnswers : AnswerPr(raw)
  \/ \E b \in BaseAnswers, h \in HeadAnswers : AnswerBaseHead(b, h)
  \/ DispatchPr
  \/ \E status \in {200, 401, 404}, data \in ProviderData, exists \in BOOLEAN :
       ProviderResponds(status, data, exists)
  \/ DispatchDirect
  \/ \E b \in BaseAnswers, h \in HeadAnswers : AnswerBaseHead2(b, h)
  \/ \E found \in BOOLEAN, exists \in BOOLEAN : SelectRepo(found, exists)
  \/ \E raw \in RepoAnswers, exists \in BOOLEAN : AnswerRepo(raw, exists)
  \/ Naming
  \/ \E fb \in BOOLEAN, fh \in BOOLEAN, ok \in BOOLEAN, out \in DiffTexts : GetDiff(fb, fh, ok, out)
  \/ \E found \in BOOLEAN, err \in SpawnErrors \cup {"none"} : RunReviewStart(found, err)

SpecSpawn == InitSpawn /\ [][NextSpawn]_vars

-----------------------------------------------------------------------------
(* getDiff (get-diff.ts 76-87) called again and again with the same options in a
   repository that does not change: the diff command answers the same each time *)

\* calls of getDiff in one behaviour
MaxCalls == 2

\* the options of the call: repoRoot, the branches, diffFileName, writePath
GetDiffOptions ==
  [ repoRoot : { CwdRepoRoot, <<"/", "srv", "/", "repos", "/", "Repo">> },
    baseBranch : { S_main },
    headBranch : { S_head, <<"fix">> },
    diffFileName : { DIFF_FILE_BASE, <<".", "4", "2">> \o DIFF_FILE_BASE },
    writePath : { Undefined, Def(<<"/", "work", "/", "out", "/", "Repo", "/", "diff.txt">>) } ]
\* what git diff answers in this repository: its exit status and its output
RepoDiffs == [ ok : BOOLEAN, out : DiffTexts ]
\* what the diff path holds before the first call
OldDiffs == { <<>>, <<"old">> }

InitDiff ==
  /\ \E o \in GetDiffOptions, old \in OldDiffs :
       /\ repoPath = o.repoRoot /\ baseBranch = o.baseBranch /\ headBranch = o.headBranch
       /\ diffFileName = o.diffFileName /\ diffWritePath = o.writePath
       /\ files = IF old = <<>> THEN <<>>
                  ELSE WriteFile(<<>>, IF o.writePath.def THEN o.writePath.val
                                       ELSE Join(o.repoRoot, o.diffFileName), old)
  /\ \E d \in RepoDiffs : gitDiff = [NoDiff EXCEPT !.ok = d.ok, !.out = d.out]
  /\ argv = <<>> /\ env = {} /\ agentEnv = NoAgentEnv /\ args = NoArgs
  /\ pc = "diff"
  /\ repoName = Basename(repoPath) /\ prId = [def |-> FALSE, val |-> 0]
  /\ outputFileName = <<>> /\ cwd = repoPath /\ reviewOutputPath = <<>>
  /\ stdout = <<>> /\ stderr = <<>>
  /\ hostExit = NotExited
  /\ firstChunk = TRUE /\ spinner = FALSE /\ spinnerIndex = 0
  /\ fileStream = NoStream /\ child = NoChild /\ received = <<>>
  /\ stages = <<>> /\ failure = "none" /\ httpStatus = 0 /\ provider = NoRequest

\* getDiff, get-diff.ts 76-87, called with the options held in the state; a
\* throw of getDiffContent leaves the file system as it was
GetDiffCall(failBase, failHead) ==
  /\ pc = "diff"
  /\ gitDiff.calls < MaxCalls
  /\ gitDiff' = DiffCalled(gitDiff, gitDiff.ok, gitDiff.out)
  /\ IF DiffThrows(gitDiff.ok, gitDiff.out)
       THEN /\ stderr' = stderr \o FetchWarnings(failBase, failHead) \o <<MsgDiffFailed>>
            /\ failure' = "diff"
            /\ UNCHANGED files
       ELSE LET diffPath == IF diffWritePath.def THEN diffWritePath.val
                            ELSE Join(repoPath, diffFileName)
            IN /\ files' = WriteFile(files, diffPath, gitDiff.out)
               /\ stderr' = stderr \o FetchWarnings(failBase, failHead)
               /\ UNCHANGED failure
  /\ UNCHANGED <<mainVars, reviewVars, pc, hostExit, stages, httpStatus, provider>>

NextDiff == \E fb \in BOOLEAN, fh \in BOOLEAN : GetDiffCall(fb, fh)

SpecDiff == InitDiff /\ [][NextDiff]_vars

-----------------------------------------------------------------------------
(* The claims *)

InSeq(s, x) == \E i \in 1..Len(s) : s[i] = x
Count(s, x) == Cardinality({i \in 1..Len(s) : s[i] = x})
IsPrefix(p, s) == Len(p) <= Len(s) /\ SubSeq(s, 1, Len(p)) = p
IsFrame(x) == InSeq(spinnerFrames, x)
\* the path getDiff writes, get-diff.ts 82
DiffPath == IF diffWritePath.def THEN diffWritePath.val ELSE Join(repoPath, diffFileName)
\* the host left through the child 'exit' handler
ExitedByChildExit == hostExit.exited /\ child.state = "exited"

\* C1: at every moment of runReview the chunks written to the host's stdout and
\* the chunks written to the output file stream are the same sequence, and that
\* sequence is the chunks received so far, in the order the agent emitted them.
C1_TeePreservesOrder ==
  /\ stdout = received
  /\ fileStream.chunks = received
  /\ IsPrefix(received, child.emitted)
  /\ received \o child.pipe = child.emitted

W_C1 == Len(received) >= 2 /\ stdout = <<1, 2>>

\* C2 (as claimed): when the host has exited through the child 'exit' handler,
\* every chunk the agent emitted has been written to stdout and to the output
\* file, and the output file stream has ended.
C2_AllOutputDeliveredAtExit ==
  ExitedByChildExit =>
    /\ stdout = child.emitted
    /\ files[reviewOutputPath] = child.emitted
    /\ fileStream.ended

\* C3 (as claimed): fileStream.end is performed once and only once per
\* invocation, and the stream is not left open when the host exits.
C3_EndPerformedExactlyOnce ==
  /\ fileStream.endCalls <= 1
  /\ (hostExit.exited /\ fileStream.opened) => fileStream.endCalls = 1

\* C3 (amended): on every exit path the output file stream has been ended when
\* the host exits; fileStream.end is invoked at least once and at most twice, the
\* second time only by the child 'exit' handler after stdout 'end' was handled.
C3_StreamEndedOnEveryExit ==
  /\ (hostExit.exited /\ fileStream.opened) => (fileStream.ended /\ fileStream.endCalls >= 1)
  /\ fileStream.endCalls <= 2
  /\ fileStream.endCalls = 2 => (child.ended /\ ExitedByChildExit)
  /\ fileStream.ended => fileStream.opened

W_C3 == hostExit.exited /\ fileStream.endCalls = 2

\* C4 (as claimed): the indicator line is cleared exactly once per invocation; no
\* later event writes a second clear.
C4_ClearedExactlyOnce ==
  /\ Count(stderr, MsgClear) <= 1
  /\ (hostExit.exited /\ fileStream.opened) => Count(stderr, MsgClear) = 1

\* C5: when the host exits because the agent exited, its exit code is the
\* agent's exit code, and 0 when the agent's code is missing.
C5_ExitCodeMirrorsAgent ==
  ExitedByChildExit =>
    hostExit.code = (IF child.code.null THEN 0 ELSE child.code.val)

W_C5 == ExitedByChildExit /\ ~child.code.null /\ hostExit.code = 2

\* C6: when the spawn fails with ENOENT, the remediation guidance is printed
\* and not the raw error, the host exits non-zero, and the output file stream
\* has been ended.
C6_EnoentGuidance ==
  (hostExit.exited /\ child.state = "failed" /\ child.err = "ENOENT") =>
    /\ InSeq(stderr, MsgAgentNotFound)
    /\ ~InSeq(stderr, MsgRawError)
    /\ hostExit.code # 0
    /\ fileStream.ended

W_C6 == hostExit.exited /\ child.state = "failed" /\ child.err = "ENOENT"

\* C7: for an agent that produced no output, wherever the completion message
\* stands on the error stream, a clear of the indicator line stands before it
\* with no frame in between, no frame follows it, and the timer is cancelled.
C7_ClearedBeforeSaved ==
  child.emitted = <<>> =>
    \A i \in 1..Len(stderr) :
      stderr[i] = MsgSaved =>
        /\ ~spinner
        /\ \E j \in 1..(i - 1) :
             /\ stderr[j] = MsgClear
             /\ \A k \in (j + 1)..(i - 1) : ~IsFrame(stderr[k])
        /\ \A k \in (i + 1)..Len(stderr) : ~IsFrame(stderr[k])

W_C7 == child.emitted = <<>> /\ InSeq(stderr, MsgSaved) /\ spinnerIndex > 0 /\ ~child.ended

\* C8: the stages run in the order resolve, diff, invoke: the diff is computed
\* only for a resolved target, the agent is spawned only after the diff file was
\* written, and after a failure in resolution or in the diff no later stage runs.
C8_StagesInOrder ==
  /\ IsPrefix(stages, <<"resolve", "diff", "invoke">>)
  /\ InSeq(stages, "diff") => (pc \notin {"start", "askPr", "askBaseHead", "dispatch", "fetch",
                                          "askBaseHead2", "selectRepo", "askRepoOut",
                                          "askRepoCwd", "naming"}
                               /\ repoPath # <<>> /\ diffFileName # <<>>)
  /\ child.state # "none" => (stages = <<"resolve", "diff", "invoke">>
                              /\ DiffPath \in DOMAIN files)
  /\ failure \in {"config", "provider", "clone", "head", "repo"} =>
       (stages = <<"resolve">> /\ files = <<>> /\ child.state = "none")
  /\ failure = "diff" =>
       (stages = <<"resolve", "diff">> /\ child.state = "none" /\ ~fileStream.opened)

W_C8 == child.state = "running" /\ stages = <<"resolve", "diff", "invoke">>

\* C9: every resolution, configuration, diff or prompt-file failure ends the run
\* with host exit code 1.
C9_FailuresExitOne ==
  failure \in {"config", "provider", "clone", "head", "repo", "diff", "prompt"} =>
    (hostExit = Exited(1) /\ pc = "exited")

W_C9 == failure = "clone" /\ prId.def /\ hostExit.exited

\* C10: after an HTTP 401 from the provider the run has ended with the PAT
\* renewal guidance on the error stream and exit code 1, and no diff file and no
\* review output file exists.
C10_UnauthorizedAborts ==
  httpStatus = 401 =>
    /\ hostExit = Exited(1)
    /\ InSeq(stderr, MsgUnauthorized)
    /\ files = <<>>
    /\ ~fileStream.opened
    /\ child.state = "none"

W_C10 == httpStatus = 401 /\ hostExit.exited

-----------------------------------------------------------------------------
(* Target resolution and artifact naming *)

\* codehermit main feature/x --output-dir ./Reviews
ArgvOutputDirLast == << S_main, S_head, <<"--output-dir">>, <<".", "/", "Reviews">> >>
\* the file names have been computed (cli.ts 333-342)
Named == diffFileName # <<>>

\* C11: for the arguments base, head, --output-dir, path the output directory is
\* recognised: the repository is the one picked at the prompt, the artifacts are
\* placed under <output-dir>/<chosen-repo>/ and both file names embed the
\* sanitized slug <base>_<head>.
C11_OutputDirAfterBranches ==
  argv = ArgvOutputDirLast =>
    /\ pc # "start" => args.outputDir = Def(<<".", "/", "Reviews">>)
    /\ Named =>
         /\ repoPath = Join(getReposRoot(env), repoName)
         /\ cwd = Join(<<"/", "work", "/", "Reviews">>, repoName)
         /\ diffFileName = <<".", "main", "_", "feature", "_", "x", ".codehermit-diff.txt">>
         /\ outputFileName = <<".", "main", "_", "feature", "_", "x", ".codehermit-output.md">>
         /\ diffWritePath = Def(Join(cwd, diffFileName))
         /\ reviewOutputPath = Join(cwd, outputFileName)

\* the request went out in by-URL mode: org and project come from the URL (cli.ts 273)
ByUrl == provider.requested /\ provider.orgUrlOverride.def
\* the request went out in by-id mode: org and project come from the environment (cli.ts 280)
ById == provider.requested /\ ~provider.orgUrlOverride.def
HasMarkers(token) == Includes(token, "dev.azure.com") /\ Includes(token, "pullrequest")

\* C12: the token decides the resolver's mode: a bare PR id is resolved only for
\* a numeric-only token, a PR URL only for a token with the host marker and the
\* pull-request segment (parsed into org, project, repository, prId), and any
\* other first token followed by a second one gives direct (base, head) branches.
C12_ModeFollowsClassification ==
  /\ ById => IsDigits(args.prIdOrUrl.val)
  /\ ByUrl =>
       /\ HasMarkers(args.prIdOrUrl.val)
       /\ LET parsed == parsePrUrl(args.prIdOrUrl.val)
          IN /\ parsed.ok /\ provider.prId = parsed.prId
             /\ provider.projectOverride = Def(parsed.project)
  /\ ( /\ Len(argv) >= 2 /\ ~StartsWithDash(argv[1])
       /\ ~IsDigits(argv[1]) /\ ~HasMarkers(argv[1])
       /\ pc # "start" )
       => (args.base = Def(argv[1]) /\ args.head = Def(argv[2]) /\ ~provider.requested)

\* C13: for every URL https://dev.azure.com/<org>/<project>/_git/<repository>/pullrequest/<id>,
\* whatever the four segments are, parsePrUrl returns exactly {org, project,
\* repository, prId} equal to those segments, and the request is made with them.
C13_ShapedUrlGivesItsSegments ==
  \A o \in SegNames, p \in SegNames, r \in SegNames, id \in IdValues :
    (argv = << <<"--pr">>, ShapedUrl(o, p, r, id) >> /\ pc # "start") =>
      /\ parsePrUrl(args.prIdOrUrl.val) =
           [ok |-> TRUE, org |-> o, project |-> p, repository |-> r, prId |-> id]
      /\ provider.requested =>
           provider.prId = id /\ provider.projectOverride = Def(p)

\* the string is https://dev.azure.com/<org>/<project>/_git/<repository>/pullrequest/<id>
\* with a numeric id
Shaped(url) ==
  /\ StartsWith(url, <<"https://", "dev.azure.com">>)
  /\ LET parts == SplitPath(Drop(url, 2))
     IN /\ Len(parts) = 6
        /\ parts[3] = <<"_git">> /\ parts[5] = <<"pullrequest">> /\ IsDigits(parts[6])
        /\ url = <<"https://", "dev.azure.com">> \o JoinParts(parts)

\* C14: for every input string that deviates from the fixed shape (a segment
\* missing or misplaced, the host or the pull-request marker missing, a
\* non-numeric id) parsePrUrl returns null, so the by-URL mode is never entered.
C14_DeviatingUrlIsRejected ==
  (pc # "start" /\ Truthy(args.prIdOrUrl) /\ ~Shaped(args.prIdOrUrl.val)) =>
    (~parsePrUrl(args.prIdOrUrl.val).ok /\ ~ByUrl)

\* the provider answered 200 and main took the target from the details (cli.ts 283-286)
Resolved == provider.answered /\ httpStatus = 200
\* branch is ref without one leading refs/heads/, or ref itself when it has none
IsRefStripped(branch, ref) ==
  IF IsPrefix(REFS_HEADS, ref) THEN REFS_HEADS \o branch = ref ELSE branch = ref

\* C15: after a successful PR resolution, by id or by URL, baseBranch is the
\* provider's targetRefName and headBranch its sourceRefName, each with one
\* leading refs/heads/ removed and nothing else, and prId is its pullRequestId.
C15_BranchesFromProviderRefs ==
  Resolved =>
    /\ IsRefStripped(baseBranch, provider.data.targetRefName)
    /\ IsRefStripped(headBranch, provider.data.sourceRefName)
    /\ prId = [def |-> TRUE, val |-> provider.data.pullRequestId]

W_C15 ==
  /\ Resolved /\ ById /\ pc = "naming"
  /\ provider.data.sourceRefName = REFS_HEADS \o <<"feature", "/", "y">>
  /\ headBranch = <<"feature", "/", "y">>
  /\ baseBranch = <<"main">> /\ prId.val = 7

\* C16: after a successful PR resolution, by id and by URL alike, repoPath is
\* reposRoot joined with the repository name the provider returned.
C16_RepoPathFromProviderName ==
  Resolved => repoPath = Join(getReposRoot(env), provider.data.repository)

\* main is past the PR branch's call of getPrDetails (cli.ts 269-282)
PrDispatched ==
  Truthy(args.prIdOrUrl) /\ pc \notin {"start", "askPr", "askBaseHead", "dispatch"}

\* C17: without provider credentials a PR resolution, by id or by URL, fails
\* with exit code 1 and no request is ever made to the provider; and when the
\* clone reposRoot/<repository> does not exist the run ends with the not-found
\* diagnostic and exit code 1 with no diff computed and nothing written.
C17_NoCredentialsNoRequest ==
  /\ (PrDispatched /\ ~getAzureConfig(env).pat) =>
       /\ ~provider.requested /\ httpStatus = 0
       /\ hostExit = Exited(1) /\ failure = "config"
  /\ (failure = "clone" /\ Truthy(args.prIdOrUrl)) =>
       /\ repoPath = Join(getReposRoot(env), repoName)
       /\ hostExit = Exited(1) /\ InSeq(stderr, MsgRepoNotFound)
       /\ stages = <<"resolve">> /\ files = <<>> /\ child.state = "none"

W_C17 ==
  /\ PrDispatched /\ ~getAzureConfig(env).pat
  /\ parsePrUrl(args.prIdOrUrl.val).ok
  /\ hostExit.exited /\ InSeq(stderr, MsgMissingConfig)

\* direct-branch resolution is about to choose the repository for an output
\* directory (cli.ts 304-313, after the head-branch check)
ChoosingForOutputDir == pc = "selectRepo" /\ headBranch # <<>> /\ Truthy(args.outputDir)

C19_NamingRule ==
  Named =>
    /\ prId.def =>
         /\ diffFileName = <<".">> \o NumStr(prId.val) \o <<".codehermit-diff.txt">>
         /\ outputFileName = <<".">> \o NumStr(prId.val) \o <<".codehermit-output.md">>
    /\ (~prId.def /\ args.outputDir.def) =>
         LET slug == sanitizeBranchForFile(baseBranch) \o <<"_">>
                       \o sanitizeBranchForFile(headBranch)
         IN /\ diffFileName = <<".">> \o slug \o <<".codehermit-diff.txt">>
            /\ outputFileName = <<".">> \o slug \o <<".codehermit-output.md">>
    /\ (~prId.def /\ ~args.outputDir.def) =>
         /\ diffFileName = <<".codehermit-diff.txt">>
         /\ outputFileName = <<".codehermit-output.md">>
         /\ cwd = repoPath /\ ~diffWritePath.def
         /\ reviewOutputPath = Join(repoPath, <<".codehermit-output.md">>)

W_C19 ==
  /\ Named /\ prId.def /\ args.outputDir.def
  /\ diffFileName = <<".", "4", "2", ".codehermit-diff.txt">>
  /\ outputFileName = <<".", "4", "2", ".codehermit-output.md">>

\* a path separator or a whitespace character
IsSeparatorOrBlank(lx) == lx \in {"/", "\\", " "}

\* C20: the artifact names are a function of (prId, output directory requested,
\* base, head) and of nothing else, the paths are those names under the
\* directory chosen for them, and no computed file name contains a path
\* separator (/ or \) or a whitespace character, whatever the branch names hold.
C20_NamesDeterminedAndSanitized ==
  Named =>
    /\ diffFileName = NameStem(prId, args.outputDir, baseBranch, headBranch) \o DIFF_FILE_BASE
    /\ outputFileName =
         NameStem(prId, args.outputDir, baseBranch, headBranch) \o OUTPUT_FILE_BASE
    /\ reviewOutputPath = Join(cwd, outputFileName)
    /\ diffWritePath.def => diffWritePath.val = Join(cwd, diffFileName)
    /\ \A i \in 1..Len(diffFileName) : ~IsSeparatorOrBlank(diffFileName[i])
    /\ \A i \in 1..Len(outputFileName) : ~IsSeparatorOrBlank(outputFileName[i])

W_C20 ==
  /\ Named /\ ~prId.def /\ args.outputDir.def
  /\ baseBranch = <<"f", "\\">> /\ headBranch = <<" ", "/">>
  /\ diffFileName = <<".", "f", "_", "_", "_", "_", ".codehermit-diff.txt">>

-----------------------------------------------------------------------------
(* Diff acquisition and the agent's command *)

\* main has reached its call of getDiff (cli.ts 361) or is past it
AtGetDiff == pc = "diff" \/ InSeq(stages, "diff")

\* C21: in every run that reaches the call of getDiff, whatever the mode and
\* the argument list, baseBranch and headBranch are non-empty strings and the
\* existence check of repoPath has passed.
C21_BranchesNonEmptyAtGetDiff ==
  AtGetDiff =>
    /\ baseBranch # <<>> /\ headBranch # <<>>
    /\ repoPath # <<>> /\ failure \notin {"clone", "head", "repo"}

\* the command line named no PR and no branch, no PR was typed at the first
\* prompt, and the base/head prompt has been answered (cli.ts 253-260)
Prompted ==
  /\ NeedsInfo(parseArgs(argv)) /\ ~Truthy(args.prIdOrUrl)
  /\ InSeq(stages, "resolve") /\ pc \notin {"askPr", "askBaseHead"}

\* C22: when no branch or PR information is supplied the branches come from the
\* prompt: a blank base answer gives baseBranch 'main', and a blank head answer
\* ends the run with exit code 1 before any repository is selected, any diff is
\* computed and any agent is started.
C22_PromptDefaultsAndBlankHead ==
  Prompted =>
    /\ args.base.def /\ args.head.def
    /\ args.base.val \in {<<"main">>} \cup ({Trim(b) : b \in BaseAnswers} \ {<<>>})
    /\ args.head.val \in {Trim(h) : h \in HeadAnswers}
    /\ pc # "dispatch" => (baseBranch = args.base.val /\ headBranch = args.head.val)
    /\ (args.head.val = <<>> /\ pc \notin {"dispatch", "selectRepo"}) =>
         /\ hostExit = Exited(1) /\ failure = "head" /\ InSeq(stderr, MsgHeadRequired)
         /\ repoPath = <<>> /\ repoName = <<>>
         /\ stages = <<"resolve">> /\ files = <<>> /\ child.state = "none"

W_C22 ==
  /\ Prompted /\ baseBranch = <<"main">> /\ headBranch = <<>>
  /\ failure = "head" /\ hostExit = Exited(1)

\* direct-branch resolution is about to choose the repository with neither
\* --repo nor --output-dir (cli.ts 314-325)
ChoosingFromCwd ==
  pc = "selectRepo" /\ headBranch # <<>> /\ ~Truthy(args.repo) /\ ~Truthy(args.outputDir)

\* C23: in direct-branch resolution with neither --repo nor --output-dir the
\* git root of the working directory is the repository when git finds one;
\* otherwise the repository prompt is shown, and a blank answer there ends the
\* run with exit code 1.
C23_CwdRootElsePrompt ==
  [][ /\ ChoosingFromCwd =>
           \/ /\ repoPath' = CwdRepoRoot /\ repoName' = Basename(CwdRepoRoot)
              /\ pc' = "naming"
           \/ /\ pc' = "askRepoCwd" /\ repoPath' = repoPath /\ hostExit' = hostExit
      /\ pc = "askRepoCwd" =>
           \E raw \in RepoAnswers :
             LET name == promptForRepo(ReposList, raw)
             IN IF name = <<>>
                  THEN /\ pc' = "exited" /\ hostExit' = Exited(1) /\ failure' = "repo"
                       /\ stderr' = Append(stderr, MsgNoDetect)
                  ELSE repoName' = name /\ repoPath' = Join(getReposRoot(env), name)
    ]_vars

W_C23 ==
  /\ ~prId.def /\ ~Truthy(args.repo) /\ ~Truthy(args.outputDir)
  /\ failure = "repo" /\ hostExit = Exited(1) /\ InSeq(stderr, MsgNoDetect)

\* C24: a branch that could not be fetched from the remote costs a warning and
\* nothing else: whichever of the two fetches failed, getDiff went on to the
\* diff command, and unless that command itself failed the diff was written to
\* the diff path and the run went on to the review.
C24_FetchFailureIsAWarning ==
  InSeq(stderr, MsgFetchWarning) =>
    /\ InSeq(stages, "diff")
    /\ Count(stderr, MsgFetchWarning) <= 2
    /\ IF InSeq(stderr, MsgDiffFailed)
         THEN failure = "diff"
         ELSE /\ DiffPath \in DOMAIN files
              /\ failure \in {"none", "prompt", "spawn"}
              /\ pc \in {"review", "running", "exited"}
              /\ pc = "exited" => (InSeq(stages, "invoke") \/ failure = "prompt")

W_C24 ==
  /\ Count(stderr, MsgFetchWarning) = 2
  /\ DiffPath \in DOMAIN files /\ files[DiffPath] = <<"d1">>
  /\ pc = "running"

\* C25: when the diff command fails, what it printed is the diff, written to
\* the diff path, if it printed anything; if it printed nothing getDiff fails
\* with the diff error and no diff file is written.
C25_PartialOutputIsTheDiff ==
  (gitDiff.calls > 0 /\ ~gitDiff.ok) =>
    IF gitDiff.out # <<>>
      THEN /\ DiffPath \in DOMAIN files /\ files[DiffPath] = gitDiff.out
           /\ gitDiff.returned = Def(Len(gitDiff.out))
           /\ failure # "diff" /\ ~InSeq(stderr, MsgDiffFailed)
      ELSE /\ failure = "diff" /\ InSeq(stderr, MsgDiffFailed)
           /\ hostExit = Exited(1)
           /\ ~gitDiff.returned.def /\ files = <<>>

W_C25 ==
  /\ gitDiff.calls = 1 /\ ~gitDiff.ok /\ gitDiff.out = <<"d1">>
  /\ DiffPath \in DOMAIN files /\ files[DiffPath] = <<"d1">>
  /\ pc = "running"

\* the agent has been spawned (cli.ts 475-479)
Spawned == child.state # "none"
\* the executable path in force: AGENT_PATH, else CURSOR_AGENT_PATH, else agent
ConfiguredAgentPath ==
  IF agentEnv.AGENT_PATH.def /\ agentEnv.AGENT_PATH.val # <<>> THEN agentEnv.AGENT_PATH.val
  ELSE IF agentEnv.CURSOR_AGENT_PATH.def /\ agentEnv.CURSOR_AGENT_PATH.val # <<>>
    THEN agentEnv.CURSOR_AGENT_PATH.val
  ELSE <<"agent">>
\* the path ends in .ps1, in any case of the letters
IsPs1(agentPath) == agentPath[Len(agentPath)] \in {".ps1", ".PS1", ".Ps1"}

\* C26: the agent's command follows the configured executable path: a path
\* ending in .ps1, in any case, is run as powershell -NoProfile -ExecutionPolicy
\* Bypass -File <path>, any other path is run directly without wrapper
\* arguments, an unset path is 'agent'; the trust flag and the prompt always
\* come after the wrapper arguments.
C26_AgentCommandDispatch ==
  Spawned =>
    LET n == Len(child.args) IN
    /\ IF IsPs1(ConfiguredAgentPath)
         THEN /\ child.command = <<"powershell">>
              /\ n = 8
              /\ SubSeq(child.args, 1, 5) =
                   << <<"-NoProfile">>, <<"-ExecutionPolicy">>, <<"Bypass">>, <<"-File">>,
                      ConfiguredAgentPath >>
         ELSE child.command = ConfiguredAgentPath /\ n = 3
    /\ child.args[n - 2] = <<"--trust">> /\ child.args[n - 1] = <<"-p">>
    /\ Head(child.args[n]) = Head(PromptTemplate)

W_C26 ==
  /\ Spawned /\ agentEnv.AGENT_PATH = Def(<<"agent", ".PS1">>)
  /\ child.command = <<"powershell">> /\ child.args[5] = <<"agent", ".PS1">>
  /\ child.args[6] = <<"--trust">>

PromptDiffName ==
  LET prompt == child.args[Len(child.args)]
  IN SubSeq(prompt, 2, Len(prompt) - 1)

\* C28: in every mode, with or without an output directory, the path the diff
\* is written to is the agent's working directory joined with the diff file
\* name substituted into the prompt, the review output file is in that same
\* directory, and the directory is the resolved repository or
\* <output-dir>/<repo-name>.
C28_DiffWhereTheAgentLooks ==
  (Spawned /\ gitDiff.returned.def) =>
    /\ DiffPath = Join(child.cwd, PromptDiffName)
    /\ DiffPath \in DOMAIN files
    /\ reviewOutputPath = Join(child.cwd, outputFileName)
    /\ child.cwd = IF Truthy(args.outputDir)
                     THEN Join(PathResolve(ProcessCwd, args.outputDir.val), repoName)
                     ELSE repoPath

\* the branches of a direct-branch run have been resolved (cli.ts 292-299 done)
DirectResolved ==
  InSeq(stages, "resolve") /\ ~Truthy(args.prIdOrUrl)
  /\ pc \notin {"askPr", "askBaseHead", "dispatch", "askBaseHead2"}

\* one of the flags stands on the command line, followed by a value
FlagGiven(flags) == \E i \in 1..(Len(argv) - 1) : argv[i] \in flags

\* C29: a branch name given on the command line is the one used: when --base
\* (or --head) has a value, the resolved baseBranch (or headBranch) is that
\* value, also when the other branch is not given and is asked for.
C29_GivenBranchIsUsed ==
  DirectResolved =>
    LET given == parseArgs(argv)
    IN /\ (FlagGiven({<<"--base">>, <<"-b">>}) /\ given.base.def) => baseBranch = given.base.val
       /\ (FlagGiven({<<"--head">>, <<"-h">>}) /\ given.head.def) => headBranch = given.head.val

\* C30: under every interleaving of the child's 'data', 'end', 'error' and
\* 'exit' events no chunk is written to the output file stream after the stream
\* has been ended: once it is ended, either the host has exited or the agent's
\* stdout holds nothing more to deliver.
C30_NoWriteAfterEnd ==
  /\ fileStream.lateWrites = 0
  /\ fileStream.ended =>
       \/ hostExit.exited
       \/ (child.pipe = <<>> /\ child.state = "exited" /\ fileStream.chunks = received)

W_C30 ==
  /\ fileStream.endCalls = 2 /\ hostExit.exited
  /\ Len(fileStream.chunks) = 2 /\ fileStream.lateWrites = 0

(* The progress indicator *)

\* a 'data', 'end', 'error' or 'exit' event has been handled: a chunk was
\* received, or the file stream was ended (cli.ts 494, 500, 516)
EventHandled == received # <<>> \/ fileStream.endCalls > 0
\* the indicator frames on the error stream
FramesIn(s) == Cardinality({i \in 1..Len(s) : IsFrame(s[i])})

\* C31: the progress indicator has two states: a frame is rendered only while
\* the timer runs, no chunk has been received and no end, error or exit event
\* has been handled; once one of these events has been handled the timer is
\* cancelled, it is never started again and no further frame is written, so no
\* frame follows agent output.
C31_IndicatorTwoStates ==
  [][ /\ EventHandled' => ~spinner'
      /\ FramesIn(stderr') # FramesIn(stderr) =>
           (spinner /\ ~EventHandled /\ ~EventHandled' /\ stdout = <<>>)
      /\ EventHandled =>
           (~spinner /\ FramesIn(stderr') = FramesIn(stderr) /\ spinnerIndex' = spinnerIndex)
    ]_vars

W_C31 ==
  /\ spinnerIndex >= 2 /\ FramesIn(stderr) = spinnerIndex
  /\ Len(stdout) = 2 /\ ~spinner /\ ~fileStream.ended /\ ~hostExit.exited

====
